---- MODULE Spec2Model ----
(***************************************************************************)
(* Model of MotionModelQuadratic (motion_model/motion_model_quadratic.py): *)
(* the per-track fitter `fit`, the batch orchestration `get_parameters`,   *)
(* and the evaluators get_bbox_by_frame / get_bbox_by_frames / the two     *)
(* torch evaluators.                                                       *)
(*                                                                         *)
(* Floats are abstracted to an exact grid: a finite value is an integer,   *)
(* and the three IEEE specials are kept apart (Inf, NInf, NaN).  Logs and  *)
(* exponentials are taken to base 2 so that they stay on the grid; values  *)
(* produced by np.exp are counted in half units, so that the w/2.0 of the  *)
(* corner conversion is exact.                                             *)
(***************************************************************************)
EXTENDS Integers, Sequences, FiniteSets, TLC

\* ------------------------------------------------------------------ bounds
NumFrames == 2      \* N_f: frames of a batch
NumTracks == 2      \* N_t: tracks of a batch
MaxTime   == 2      \* largest query time of an evaluator call
NumQuery  == 2      \* number of query times of a batched evaluator call
MaxExp    == 6      \* largest exponent np.exp maps to a finite float
MaxP0     == 2      \* grid cap of the solver's unbounded coefficient p0
MaxObs    == 2      \* longest boxes / times sequence of a direct fit call

\* ------------------------------------------------------- program constants
P2Upper   == 3      \* bounds=([0, -0.1, 0], [np.inf, 1.1, 3]): p2 <= 3
P1Upper   == 1      \* grid points of p1 in [-0.1, 1.1] are 0 and 1
LogFloor  == -27    \* np.log of the clip floor 1e-8, to base 2
NumSignals == 4     \* cx, cy, w, h

Frames  == 1..NumFrames
Tracks  == 1..NumTracks
Signals == 1..NumSignals
None    == << >>

\* ------------------------------------------------------------------ floats
Fin(n) == [k |-> "fin", v |-> n]
Inf    == [k |-> "inf", v |-> 1]
NInf   == [k |-> "inf", v |-> -1]
NaN    == [k |-> "nan", v |-> 0]

IsNaN(a)    == a.k = "nan"
IsFinite(a) == a.k = "fin"
Sign(n)     == IF n > 0 THEN 1 ELSE IF n < 0 THEN -1 ELSE 0
InfOf(s)    == IF s > 0 THEN Inf ELSE NInf

FNeg(a) == IF a.k = "nan" THEN NaN ELSE [k |-> a.k, v |-> -a.v]

FAdd(a, b) ==
    IF IsNaN(a) \/ IsNaN(b) THEN NaN
    ELSE IF a.k = "inf" /\ b.k = "inf" THEN (IF a.v = b.v THEN a ELSE NaN)
    ELSE IF a.k = "inf" THEN a
    ELSE IF b.k = "inf" THEN b
    ELSE Fin(a.v + b.v)

FSub(a, b) == FAdd(a, FNeg(b))

FMul(a, b) ==
    IF IsNaN(a) \/ IsNaN(b) THEN NaN
    ELSE IF a.k = "inf" \/ b.k = "inf"
         THEN (IF Sign(a.v) * Sign(b.v) = 0 THEN NaN ELSE InfOf(Sign(a.v) * Sign(b.v)))
    ELSE Fin(a.v * b.v)

\* x / 2.0 on the half-unit grid
FHalf(a) == IF IsFinite(a) THEN Fin(a.v \div 2) ELSE a

RECURSIVE Pow2(_)
Pow2(n) == IF n <= 0 THEN 1 ELSE 2 * Pow2(n - 1)

\* np.exp: overflow to +inf above MaxExp, exp(-inf) = 0, NaN stays NaN.
\* The finite result is counted in half units (2 * 2^n).
NpExp(a) ==
    IF IsNaN(a) THEN NaN
    ELSE IF a.k = "inf" THEN (IF a.v > 0 THEN Inf ELSE Fin(0))
    ELSE IF a.v > MaxExp THEN Inf
    ELSE IF a.v < 0 THEN Fin(0)
    ELSE Fin(2 * Pow2(a.v))

\* ------------------------------------------------------------- evaluators
\* model_func / model_func_torch: p2*x*x + p1*x + p0
model_func(x, p0, p1, p2) == FAdd(FAdd(FMul(FMul(p2, x), x), FMul(p1, x)), p0)

model_func_torch(x, p0, p1, p2) == FAdd(FAdd(FMul(FMul(p2, x), x), FMul(p1, x)), p0)

get_invalid_params == [r \in Signals |-> <<Fin(0), Fin(0), Fin(0)>>]

ZeroBox == <<Fin(0), Fin(0), Fin(0), Fin(0)>>

\* np.exp(model_func(t, p[:, 0], p[:, 1], p[:, 2])): the row (cx, cy, w, h)
CxCyWH(p, t) == [r \in Signals |-> NpExp(model_func(t, p[r][1], p[r][2], p[r][3]))]

Corners(c) ==
    << FSub(c[1], FHalf(c[3])), FSub(c[2], FHalf(c[4])),
       FAdd(c[1], FHalf(c[3])), FAdd(c[2], FHalf(c[4])) >>

\* get_bbox_by_frame(time) on the block p
get_bbox_by_frame(p, time) == Corners(CxCyWH(p, time))

\* np.sum(np.isnan(cx_cy_w_h), axis=1) > 0
RowHasNaN(c) == \E r \in Signals : IsNaN(c[r])

\* the times not tiled against the rows: every row evaluated at times[0]
get_bbox_by_frames_first_time(p, times) ==
    [q \in DOMAIN times |->
        LET c == CxCyWH(p, times[1])
        IN  Corners(IF RowHasNaN(c) THEN ZeroBox ELSE c)]

\* get_bbox_by_frames(times) on the block p: one box per query time
get_bbox_by_frames(p, times) ==
    [q \in DOMAIN times |->
        LET c == CxCyWH(p, times[q])
        IN  Corners(IF RowHasNaN(c) THEN ZeroBox ELSE c)]

\* get_bbox_by_frames_without_batch_pytorch(parameter[N,4,3], time[Q]) -> [Q,N,4]
get_bbox_by_frames_without_batch_pytorch(parameter, time) ==
    [q \in DOMAIN time |->
        [n \in DOMAIN parameter |->
            [r \in Signals |->
                model_func_torch(time[q], parameter[n][r][1],
                                 parameter[n][r][2], parameter[n][r][3])]]]

\* get_bbox_by_frames_pytorch(parameters[B,N,4,3], times[B,Q]) -> [B,Q,N,4]
get_bbox_by_frames_pytorch(parameters, times) ==
    [b \in DOMAIN parameters |->
        [q \in DOMAIN times[b] |->
            [n \in DOMAIN parameters[b] |->
                [r \in Signals |->
                    model_func_torch(times[b][q], parameters[b][n][r][1],
                                     parameters[b][n][r][2], parameters[b][n][r][3])]]]]

\* ------------------------------------------------------------------ fitter
\* dataset.utils.common.get_cx_cy_w_h: boxes (n, 4) -> rows cx, cy, w, h
get_cx_cy_w_h(bboxes) ==
    [s \in Signals |->
        [j \in DOMAIN bboxes |->
            CASE s = 1 -> (bboxes[j][1] + bboxes[j][3]) \div 2
              [] s = 2 -> (bboxes[j][2] + bboxes[j][4]) \div 2
              [] s = 3 -> bboxes[j][3] - bboxes[j][1]
              [] s = 4 -> bboxes[j][4] - bboxes[j][2]]]

\* base-2 logarithm on the grid (floor)
Log2(v) == CHOOSE e \in 0..v : Pow2(e) <= v /\ v < Pow2(e + 1)

\* np.log(np.clip(v, a_min=1e-8, a_max=None)): whatever is below the floor
\* becomes the floor
NpLogClip(v) == IF v < 1 THEN LogFloor ELSE Log2(v)

\* times defaults to range(len(bboxes))
DefaultTimes(bboxes) == [j \in DOMAIN bboxes |-> j - 1]

\* The solver's search space: bounds=([0, -0.1, 0], [np.inf, 1.1, 3])
Grid == (0..MaxP0) \X (0..P1Upper) \X (0..P2Upper)

\* model(xdata, *p) - ydata broadcasts a length-1 operand
BroadcastLen(x, y) == IF Len(x) = 1 THEN Len(y) ELSE Len(x)
At(a, j) == IF Len(a) = 1 THEN a[1] ELSE a[j]

RECURSIVE SumSq(_, _, _, _)
SumSq(p, x, y, n) ==
    IF n = 0 THEN 0
    ELSE LET d == p[3] * At(x, n) * At(x, n) + p[2] * At(x, n) + p[1] - At(y, n)
         IN  d * d + SumSq(p, x, y, n - 1)

\* curve_fit raises on empty data and on operands that do not broadcast
CurveFitRejects(x, y) ==
    \/ Len(y) = 0
    \/ Len(x) = 0
    \/ (Len(x) # Len(y) /\ Len(x) # 1 /\ Len(y) # 1)

\* curve_fit(model_func, x, y, bounds=...)[0]: the least-squares point
curve_fit(x, y) ==
    LET n == BroadcastLen(x, y)
        cost == [q \in Grid |-> SumSq(q, x, y, n)]
    IN  CHOOSE p \in Grid : \A q \in Grid : cost[p] <= cost[q]

\* np.array(parameters): the list of four [p0, p1, p2] rows as a block
NpArray(rows) == [r \in DOMAIN rows |-> <<Fin(rows[r][1]), Fin(rows[r][2]), Fin(rows[r][3])>>]

\* ------------------------------------------------------------------- state
VARIABLES
    data,        \* bboxes_with_overlap_class[f][t]: box, channel 4 (e), channel 5 (c)
    times,       \* get_parameters's times array, one per frame
    p_c,         \* per-track confidence (a fresh array: .max(axis=0))
    parameters,  \* get_parameters's list of per-track blocks
    mm,          \* the fitter object's self.parameters
    main,        \* "call" | "loop" | "returned" | "raised" | "direct" | "eval"
    exc,         \* the exception that left the running call (call, line), or NoExc
    pc,          \* per track (per call): position in the loop body / in fit
    bbox_mask,   \* per track: the frame mask of line 131
    fitB, fitT,  \* per call: fit's arguments bboxes and times
    plist,       \* per call: fit's local list `parameters`
    param,       \* per call: what fit returned
    acc,         \* outcome of the last accessor call on the fitter
    evTimes,     \* query times of the evaluator calls
    resFrame, resFrames, resTorch, resTorchB   \* evaluator results

vars == <<data, times, p_c, parameters, mm, main, exc, pc, bbox_mask, fitB, fitT,
          plist, param, acc, evTimes, resFrame, resFrames, resTorch, resTorchB>>

batchVars == <<data, times, p_c, parameters, bbox_mask>>
evalVars  == <<evTimes, resFrame, resFrames, resTorch, resTorchB>>

\* ------------------------------------------------------------------ inputs
CellZ == [box |-> <<0, 0, 0, 0>>, e |-> 0, c |-> 0]   \* no observation
CellA == [box |-> <<0, 0, 2, 2>>, e |-> 1, c |-> 1]
CellB == [box |-> <<2, 1, 6, 3>>, e |-> 1, c |-> 0]   \* class/occlusion confidence 0
CellH == [box |-> <<0, 0, 2, 2>>, e |-> 0, c |-> 2]   \* box present, existence flag 0
Cells == {CellZ, CellA, CellB, CellH}

FrameTimes == [f \in Frames |-> f - 1]

Idle == [i \in Tracks |-> "start"]
NoSeqs == [i \in Tracks |-> << >>]
TimesArg(v) == [given |-> TRUE, v |-> v]
TimesNone == [given |-> FALSE, v |-> << >>]   \* times=None
NoTimes == [i \in Tracks |-> TimesNone]
NoMask == [i \in Tracks |-> [f \in Frames |-> FALSE]]
NoData == [f \in Frames |-> [i \in Tracks |-> CellZ]]
NoExc == [call |-> 0, line |-> 0]
NoAcc == [time |-> -1, raised |-> FALSE, box |-> <<Fin(0), Fin(0), Fin(0), Fin(0)>>]

\* ------------------------------------------------------------ array helpers
\* a[mask]: the entries of a whose frame is selected, in frame order
RECURSIVE Masked(_, _, _)
Masked(a, mask, n) ==
    IF n = 0 THEN << >>
    ELSE IF mask[n] THEN Append(Masked(a, mask, n - 1), a[n])
    ELSE Masked(a, mask, n - 1)

MaxOf(S) == CHOOSE m \in S : \A x \in S : x <= m

BoxSum(b) == b[1] + b[2] + b[3] + b[4]

\* np.logical_and(np.sum(bbs, axis=1) > 0, p_e[:, i] > 0)
BboxMask(d, i) == [f \in Frames |-> BoxSum(d[f][i].box) > 0 /\ d[f][i].e > 0]

\* bboxes_with_overlap_class[:, :, 5].max(axis=0)
\* .min(axis=0) in place of .max(axis=0)
ClassMin(d) ==
    [i \in Tracks |->
        CHOOSE m \in {d[f][i].c : f \in Frames} : \A f \in Frames : m <= d[f][i].c]

ClassMax(d) == [i \in Tracks |-> MaxOf({d[f][i].c : f \in Frames})]

\* np.log(y) for row k of res = np.clip(get_cx_cy_w_h(bboxes), 1e-8, None)
FitY(i, k) ==
    LET res == get_cx_cy_w_h(fitB[i])
    IN  [j \in DOMAIN fitB[i] |-> NpLogClip(res[k][j])]

\* ----------------------------------------------------------------- fit steps
\* Lines 50-56: default the times, convert and clip the boxes, parameters = [].
\* These statements are outside the try block: an exception of the conversion
\* leaves fit, and leaves get_parameters when it is the caller.
FitConvert(i) ==
    /\ pc[i] = "conv"
    /\ \/ /\ pc' = [pc EXCEPT ![i] = "solve"]
          /\ fitT' = [fitT EXCEPT ![i] =
                        IF fitT[i].given THEN fitT[i] ELSE TimesArg(DefaultTimes(fitB[i]))]
          /\ plist' = [plist EXCEPT ![i] = << >>]
          /\ UNCHANGED <<exc, main>>
       \/ /\ pc' = [pc EXCEPT ![i] = "raised"]
          /\ exc' = [call |-> i, line |-> 53]
          /\ main' = IF main = "loop" THEN "raised" ELSE main
          /\ UNCHANGED <<fitT, plist>>
    /\ UNCHANGED <<batchVars, evalVars, mm, fitB, param, acc>>

\* Line 70 without the try block: the solver's exception leaves fit
FitExceptPropagates(i) ==
    /\ pc' = [pc EXCEPT ![i] = "raised"]
    /\ exc' = [call |-> i, line |-> 61]
    /\ main' = IF main = "loop" THEN "raised" ELSE main
    /\ UNCHANGED mm

\* Line 70 storing the rows fitted so far
FitExceptPartial(i) ==
    /\ mm' = NpArray(plist[i])
    /\ pc' = [pc EXCEPT ![i] = "ret"]
    /\ UNCHANGED <<exc, main>>

\* Line 70 leaving the stored block alone
FitExceptKeeps(i) ==
    /\ pc' = [pc EXCEPT ![i] = "ret"]
    /\ UNCHANGED <<mm, exc, main>>

\* Lines 69-70: except: self.parameters = None
FitExcept(i) ==
    /\ mm' = None
    /\ pc' = [pc EXCEPT ![i] = "ret"]
    /\ UNCHANGED <<exc, main>>

\* Lines 65-67: parameters += [[param[0], param[1], param[2]]]
FitAppend(i, row) == Append(plist[i], row)

\* Lines 60-67, one turn of the loop: the solver call for the next signal.  It
\* raises on data it rejects and may raise on any data (no convergence).
FitSolve(i) ==
    /\ pc[i] = "solve"
    /\ Len(plist[i]) < NumSignals
    /\ LET k == Len(plist[i]) + 1
           x == fitT[i].v
           y == FitY(i, k)
       IN  \/ /\ ~CurveFitRejects(x, y)
              /\ plist' = [plist EXCEPT ![i] = FitAppend(i, curve_fit(x, y))]
              /\ UNCHANGED <<pc, mm, exc, main>>
           \/ /\ FitExcept(i)
              /\ UNCHANGED plist
    /\ UNCHANGED <<batchVars, evalVars, fitB, fitT, param, acc>>

\* Line 68: self.parameters = np.array(parameters)
FitStore(i) ==
    /\ pc[i] = "solve"
    /\ Len(plist[i]) = NumSignals
    /\ mm' = NpArray(plist[i])
    /\ pc' = [pc EXCEPT ![i] = "ret"]
    /\ UNCHANGED <<batchVars, evalVars, exc, main, fitB, fitT, plist, param, acc>>

\* Line 72: return self.parameters
FitResult(i) == mm

FitReturn(i) ==
    /\ pc[i] = "ret"
    /\ param' = [param EXCEPT ![i] = FitResult(i)]
    /\ pc' = [pc EXCEPT ![i] = "got"]
    /\ UNCHANGED <<batchVars, evalVars, mm, exc, main, fitB, fitT, plist, acc>>

\* ----------------------------------------------------------- get_parameters
\* Lines 123-128: p_c is the per-track maximum of channel 5, the list is empty,
\* one fitter object mm serves every track.
Enter ==
    /\ main = "call"
    /\ main' = "loop"
    /\ parameters' = << >>
    /\ p_c' = ClassMax(data)
    /\ mm' = None
    /\ UNCHANGED <<data, times, bbox_mask, exc, pc, fitB, fitT, plist, param, acc, evalVars>>

\* Lines 130-133: the track's mask, and the call mm.fit(bbs[mask, :], times[mask])
Mask(i) ==
    /\ main = "loop"
    /\ pc[i] = "start"
    /\ LET m == BboxMask(data, i)
       IN  /\ bbox_mask' = [bbox_mask EXCEPT ![i] = m]
           /\ fitB' = [fitB EXCEPT ![i] = Masked([f \in Frames |-> data[f][i].box], m, NumFrames)]
           /\ fitT' = [fitT EXCEPT ![i] = TimesArg(Masked(times, m, NumFrames))]
    /\ pc' = [pc EXCEPT ![i] = "conv"]
    /\ UNCHANGED <<data, times, p_c, parameters, mm, main, exc, plist, param, acc, evalVars>>

\* Lines 134-136 without the substitution of the invalid block
CollectParamRaw(i) == param[i]

\* Lines 134-135: a None result becomes get_invalid_params()
CollectParam(i) == IF param[i] = None THEN get_invalid_params ELSE param[i]

\* Line 136: p_c[i] = 0 when the fit returned None
CollectConf(i) == IF param[i] = None THEN 0 ELSE p_c[i]

\* Lines 134-138: substitute the sentinel, append the block, write the mask
\* into column i of p_e (a view of channel 4 of the input array).  The loop
\* moves on: the locals of the track's fit call are gone.
Collect(i) ==
    /\ main = "loop"
    /\ pc[i] = "got"
    /\ parameters' = Append(parameters, CollectParam(i))
    /\ p_c' = [p_c EXCEPT ![i] = CollectConf(i)]
    /\ data' = [f \in Frames |->
                  [data[f] EXCEPT ![i].e = IF bbox_mask[i][f] THEN 1 ELSE 0]]
    /\ pc' = [pc EXCEPT ![i] = "done"]
    /\ plist' = [plist EXCEPT ![i] = << >>]
    /\ UNCHANGED <<times, bbox_mask, mm, main, exc, fitB, fitT, param, acc, evalVars>>

\* Lines 142-143: parameters = np.stack(parameters); return parameters, p_e, p_c
Stack ==
    /\ main = "loop"
    /\ \A i \in Tracks : pc[i] = "done"
    /\ main' = "returned"
    /\ UNCHANGED <<batchVars, evalVars, mm, exc, pc, fitB, fitT, plist, param, acc>>

\* for i in range(track_num): track i starts when the tracks before it are done
Turn(i) == \A j \in Tracks : j < i => pc[j] = "done"

\* The batch: every track's first frame and its later frames are drawn from
\* Cells (with two frames, every batch over Cells)
InitBatch ==
    /\ \E first, rest \in [Tracks -> Cells] :
          data = [f \in Frames |-> IF f = 1 THEN first ELSE rest]
    /\ times = FrameTimes
    /\ p_c = [i \in Tracks |-> 0]
    /\ parameters = << >>
    /\ mm = None
    /\ main = "call"
    /\ exc = NoExc
    /\ pc = Idle
    /\ bbox_mask = NoMask
    /\ fitB = NoSeqs
    /\ fitT = NoTimes
    /\ plist = NoSeqs
    /\ param = NoSeqs
    /\ acc = NoAcc
    /\ evTimes = << >>
    /\ resFrame = [q |-> 0, box |-> ZeroBox]
    /\ resFrames = None
    /\ resTorch = None
    /\ resTorchB = None

NextBatch ==
    \/ Enter
    \/ \E i \in Tracks : Turn(i) /\ Mask(i)
    \/ \E i \in Tracks : Turn(i) /\ main = "loop" /\ FitConvert(i)
    \/ \E i \in Tracks : Turn(i) /\ main = "loop" /\ FitSolve(i)
    \/ \E i \in Tracks : Turn(i) /\ main = "loop" /\ FitStore(i)
    \/ \E i \in Tracks : Turn(i) /\ main = "loop" /\ FitReturn(i)
    \/ \E i \in Tracks : Turn(i) /\ Collect(i)
    \/ Stack

\* get_parameters as written: the loop runs the tracks one after the other
Spec == InitBatch /\ [][NextBatch]_vars

NextPar ==
    \/ Enter
    \/ \E i \in Tracks : Mask(i)
    \/ \E i \in Tracks : main = "loop" /\ FitConvert(i)
    \/ \E i \in Tracks : main = "loop" /\ FitSolve(i)
    \/ \E i \in Tracks : main = "loop" /\ FitStore(i)
    \/ \E i \in Tracks : main = "loop" /\ FitReturn(i)
    \/ \E i \in Tracks : Collect(i)
    \/ Stack

\* the loop body of get_parameters run for all tracks at once, step by step
SpecPar == InitBatch /\ [][NextPar]_vars

\* ------------------------------------------------- direct calls of the fitter
Boxes == {CellA.box, CellB.box}

SeqsUpTo(S, n) == UNION {[1..m -> S] : m \in 0..n}

\* strictly increasing time sequences
TimeSeqs ==
    {t \in SeqsUpTo(0..MaxTime, MaxObs) : \A a, b \in DOMAIN t : a < b => t[a] < t[b]}

InFlight(i) == pc[i] \in {"conv", "solve", "ret"}

\* mm.fit(bboxes, times) or mm.fit(bboxes), on the one fitter object
FitCall(i) ==
    /\ main = "direct"
    /\ ~InFlight(i)
    /\ \E b \in SeqsUpTo(Boxes, MaxObs), t \in {TimesArg(v) : v \in TimeSeqs} \cup {TimesNone} :
          /\ fitB' = [fitB EXCEPT ![i] = b]
          /\ fitT' = [fitT EXCEPT ![i] = t]
    /\ pc' = [pc EXCEPT ![i] = "conv"]
    /\ plist' = [plist EXCEPT ![i] = << >>]
    /\ param' = [param EXCEPT ![i] = None]
    /\ exc' = NoExc
    /\ acc' = NoAcc
    /\ UNCHANGED <<batchVars, evalVars, mm, main>>

\* p[:, 0] of self.parameters = None raises TypeError
Accessor(p, t) ==
    IF p = None THEN [raised |-> TRUE, box |-> ZeroBox]
    ELSE [raised |-> FALSE, box |-> get_bbox_by_frame(p, t)]

\* Lines 75-82: mm.get_bbox_by_frame(time) between two fit calls
GetBbox(i) ==
    /\ main = "direct"
    /\ pc[i] \in {"got", "raised"}
    /\ \E t \in 0..MaxTime : acc' = [time |-> t] @@ Accessor(mm, Fin(t))
    /\ UNCHANGED <<batchVars, evalVars, mm, main, exc, pc, fitB, fitT, plist, param>>

InitFit ==
    /\ data = NoData
    /\ times = FrameTimes
    /\ p_c = [i \in Tracks |-> 0]
    /\ parameters = << >>
    /\ mm = None
    /\ main = "direct"
    /\ exc = NoExc
    /\ pc = Idle
    /\ bbox_mask = NoMask
    /\ fitB = NoSeqs
    /\ fitT = NoTimes
    /\ plist = NoSeqs
    /\ param = NoSeqs
    /\ acc = NoAcc
    /\ evTimes = << >>
    /\ resFrame = [q |-> 0, box |-> ZeroBox]
    /\ resFrames = None
    /\ resTorch = None
    /\ resTorchB = None

NextFit ==
    \/ FitCall(1)
    \/ FitConvert(1)
    \/ FitSolve(1)
    \/ FitStore(1)
    \/ FitReturn(1)
    \/ GetBbox(1)

\* a caller that fits again and again with one MotionModelQuadratic object
SpecFit == InitFit /\ [][NextFit]_vars

\* ------------------------------------------------------ calls of the evaluators
RowNormal  == <<Fin(1), Fin(1), Fin(0)>>
RowExplode == <<Fin(0), Fin(0), Fin(P2Upper)>>   \* p2 * t * t leaves the range of exp
RowInf     == <<Fin(0), Inf, Fin(0)>>            \* inf * 0 is NaN, inf * t is inf
Rows == {RowNormal, RowExplode, RowInf}

QueryIdx == 1..NumQuery

\* the stacked blocks a torch evaluator is given: [N, 4, 3]
TorchStack == <<mm, get_invalid_params>>

\* Lines 75-82: get_bbox_by_frame(evTimes[q]); resFrame keeps the last such call
EvalFrame(q) ==
    /\ main = "eval"
    /\ resFrame' = [q |-> q, box |-> get_bbox_by_frame(mm, evTimes[q])]
    /\ UNCHANGED <<batchVars, mm, main, exc, pc, fitB, fitT, plist, param, acc,
                   evTimes, resFrames, resTorch, resTorchB>>

\* Lines 84-98: get_bbox_by_frames(evTimes)
EvalFrames ==
    /\ main = "eval"
    /\ resFrames = None
    /\ resFrames' = get_bbox_by_frames(mm, evTimes)
    /\ UNCHANGED <<batchVars, mm, main, exc, pc, fitB, fitT, plist, param, acc,
                   evTimes, resFrame, resTorch, resTorchB>>

\* Lines 177-187: get_bbox_by_frames_without_batch_pytorch(stack, evTimes)
EvalTorch ==
    /\ main = "eval"
    /\ resTorch = None
    /\ resTorch' = get_bbox_by_frames_without_batch_pytorch(TorchStack, evTimes)
    /\ UNCHANGED <<batchVars, mm, main, exc, pc, fitB, fitT, plist, param, acc,
                   evTimes, resFrame, resFrames, resTorchB>>

\* Lines 150-175: get_bbox_by_frames_pytorch on a batch of one
EvalTorchB ==
    /\ main = "eval"
    /\ resTorchB = None
    /\ resTorchB' = get_bbox_by_frames_pytorch(<<TorchStack>>, <<evTimes>>)
    /\ UNCHANGED <<batchVars, mm, main, exc, pc, fitB, fitT, plist, param, acc,
                   evTimes, resFrame, resFrames, resTorch>>

\* MotionModelQuadratic(parameters) (line 39) and an array of query times
InitEval ==
    /\ data = NoData
    /\ times = FrameTimes
    /\ p_c = [i \in Tracks |-> 0]
    /\ parameters = << >>
    /\ mm \in [Signals -> Rows]
    /\ main = "eval"
    /\ exc = NoExc
    /\ pc = Idle
    /\ bbox_mask = NoMask
    /\ fitB = NoSeqs
    /\ fitT = NoTimes
    /\ plist = NoSeqs
    /\ param = NoSeqs
    /\ acc = NoAcc
    /\ evTimes \in [QueryIdx -> {Fin(t) : t \in 0..MaxTime}]
    /\ resFrame = [q |-> 0, box |-> ZeroBox]
    /\ resFrames = None
    /\ resTorch = None
    /\ resTorchB = None

NextEval == (\E q \in QueryIdx : EvalFrame(q)) \/ EvalFrames \/ EvalTorch \/ EvalTorchB

\* the evaluators applied to a parameter block and an array of query times
SpecEval == InitEval /\ [][NextEval]_vars

\* ===================================================================== claims
\* track i's own fit ran through all four signals
OwnFitted(i) == Len(plist[i]) = NumSignals
\* what track i's own fit produced
OwnResult(i) == IF OwnFitted(i) THEN NpArray(plist[i]) ELSE None
\* the largest channel-5 value of track i's column
IsColumnMax(i, m) ==
    /\ \A f \in Frames : data[f][i].c <= m
    /\ \E f \in Frames : data[f][i].c = m

\* fit has returned to every track that waits with its result its own outcome
ReturnsOwn == \A i \in Tracks : pc[i] = "got" => param[i] = OwnResult(i)

\* the per-track outputs of get_parameters: a track whose fit returned None has
\* the sentinel block and confidence 0, every other track the block its fit
\* returned and the maximum of its channel 5
OutputsPerTrack ==
    \A i \in Tracks :
        IF param[i] # None
        THEN parameters[i] = param[i] /\ IsColumnMax(i, p_c[i])
        ELSE parameters[i] = get_invalid_params /\ p_c[i] = 0

\* C1 as stated: whatever fails inside fit, no exception leaves get_parameters,
\* and the returned arrays hold the sentinel and confidence 0 for the failed
\* tracks, the own block and confidence for the others.
C1_Original ==
    /\ main # "raised"
    /\ ReturnsOwn
    /\ main = "returned" => OutputsPerTrack

\* C1 amended: a failure inside fit's try block (the solver calls, lines 58-68)
\* never leaves get_parameters and never changes another track's outputs; the
\* only exception that leaves it comes from the statements before the try
\* block (lines 50-54).
C1_Amended ==
    /\ main = "raised" => exc.line = 53
    /\ ReturnsOwn
    /\ main = "returned" => OutputsPerTrack

\* a batch returned in which an earlier track failed and a later track was
\* fitted
C1_Witness ==
    /\ main = "returned"
    /\ \E i, j \in Tracks :
          /\ i < j
          /\ param[i] = None
          /\ parameters[i] = get_invalid_params /\ p_c[i] = 0
          /\ param[j] # None
          /\ parameters[j] = param[j] /\ parameters[j] # get_invalid_params /\ p_c[j] > 0

\* C2 as stated: a track reported with confidence 0 has the all-zero block
C2_Original ==
    main = "returned" =>
        \A i \in Tracks : p_c[i] = 0 => parameters[i] = get_invalid_params

\* C2 amended: a failed track has the all-zero block and confidence 0, and a
\* track reported with confidence 0 has the all-zero block unless its fit
\* succeeded and its channel-5 values are all 0 (it keeps its fitted block)
C2_Amended ==
    /\ ReturnsOwn
    /\ main = "returned" =>
        \A i \in Tracks :
            /\ param[i] = None => (parameters[i] = get_invalid_params /\ p_c[i] = 0)
            /\ p_c[i] = 0 =>
                  \/ parameters[i] = get_invalid_params
                  \/ /\ param[i] # None
                     /\ parameters[i] = param[i]
                     /\ \A f \in Frames : data[f][i].c = 0

\* one track with confidence 0 and a fitted, non-zero block, another failed
\* although its class confidence was positive
C2_Witness ==
    /\ main = "returned"
    /\ \E i, j \in Tracks :
          /\ p_c[i] = 0 /\ param[i] # None /\ parameters[i] # get_invalid_params
          /\ param[j] = None /\ p_c[j] = 0 /\ parameters[j] = get_invalid_params
          /\ \E f \in Frames : data[f][j].c > 0

\* C5: the output confidence of a track is the maximum of its channel-5
\* values over the frames, or 0 when its fit failed; it never exceeds that
\* maximum
C5_Confidence ==
    /\ ReturnsOwn
    /\ main = "returned" =>
        \A i \in Tracks :
            /\ param[i] # None => IsColumnMax(i, p_c[i])
            /\ param[i] = None => p_c[i] = 0
            /\ \E f \in Frames : p_c[i] <= data[f][i].c

\* a fitted track whose frames differ in channel 5, and a failed one whose
\* maximum was positive
C5_Witness ==
    /\ main = "returned"
    /\ \E i, j \in Tracks :
          /\ param[i] # None /\ p_c[i] > 0
          /\ \E f \in Frames : data[f][i].c < p_c[i]
          /\ param[j] = None /\ p_c[j] = 0
          /\ \E f \in Frames : data[f][j].c > 0

\* C4: what a track gets depends on its own column only, also when the loop
\* bodies of the tracks interleave: fit returns to each track its own outcome,
\* and the returned arrays hold, at each track's index, that track's block and
\* confidence
C4_Original ==
    /\ ReturnsOwn
    /\ main = "returned" => OutputsPerTrack

\* a block is complete: four rows of three finite coefficients
CompleteBlock(b) ==
    /\ DOMAIN b = Signals
    /\ \A r \in Signals : DOMAIN b[r] = 1..3 /\ \A c \in 1..3 : IsFinite(b[r][c])

\* C3: fit is atomic.  What fit returns and what the fitter stores is either
\* None or a complete block whose row k is the solver's result for signal k;
\* a failure at signal k after k-1 fitted rows returns and stores None, never
\* the rows fitted so far.
C3_Atomic ==
    /\ mm = None \/ CompleteBlock(mm)
    /\ \A i \in Tracks :
          /\ (pc[i] \in {"ret", "got"} /\ ~OwnFitted(i)) => mm = None
          /\ pc[i] = "got" =>
                IF OwnFitted(i)
                THEN /\ param[i] = NpArray(plist[i])
                     /\ \A k \in Signals : plist[i][k] = curve_fit(fitT[i].v, FitY(i, k))
                ELSE param[i] = None

\* a fit that failed after some signals were fitted has returned None
C3_Witness ==
    /\ pc[1] = "got"
    /\ Len(plist[1]) \in 1..(NumSignals - 1)
    /\ param[1] = None /\ mm = None

\* the boxes and the times of call i differ in length
Mismatch(i) == fitT[i].given /\ Len(fitT[i].v) # Len(fitB[i])

\* C9: a fit call whose boxes and times differ in length does not return: it
\* raises (or reports a structured error), it yields neither None nor a block
C9_Original == \A i \in Tracks : Mismatch(i) => pc[i] # "got"

\* C10 as stated: a failed fit leaves the stored parameters unchanged
C10_Original ==
    [][\A i \in Tracks :
          (pc[i] = "solve" /\ pc'[i] = "ret" /\ ~OwnFitted(i)) => mm' = mm]_vars

\* C10 amended: after a fit call has returned, the fitter holds what that call
\* returned: the fitted block after a success, None after a failure (a failed
\* fit clears the stored block), and an accessor called after a failed fit
\* raises instead of evaluating an earlier block
C10_Amended ==
    /\ pc[1] = "got" => mm = param[1] /\ mm = OwnResult(1)
    /\ (pc[1] = "got" /\ ~OwnFitted(1) /\ acc.time >= 0) => acc.raised
    /\ (pc[1] = "got" /\ OwnFitted(1) /\ acc.time >= 0) =>
            (~acc.raised /\ acc.box = get_bbox_by_frame(NpArray(plist[1]), Fin(acc.time)))

\* an accessor call after a fit that failed at a later signal
C10_Witness ==
    /\ pc[1] = "got"
    /\ Len(plist[1]) \in 1..(NumSignals - 1)
    /\ acc.time >= 0 /\ acc.raised

\* C6: a query time whose (cx, cy, w, h) holds a non-finite value (NaN or an
\* infinity) yields the all-zero box, every other one its own box, and no
\* returned box is partly non-finite
C6_Original ==
    resFrames # None =>
        \A q \in QueryIdx :
            LET c == CxCyWH(mm, evTimes[q])
            IN  /\ IF \E r \in Signals : ~IsFinite(c[r])
                   THEN resFrames[q] = ZeroBox
                   ELSE resFrames[q] = Corners(c)
                /\ \A r \in Signals : IsFinite(resFrames[q][r])

C8_Original ==
    /\ resTorch # None =>
          \A q \in QueryIdx : \A n \in DOMAIN TorchStack :
              resTorch[q][n] = get_bbox_by_frames(TorchStack[n], evTimes)[q]
    /\ resTorchB # None =>
          \A q \in QueryIdx : \A n \in DOMAIN TorchStack :
              resTorchB[1][q][n] = get_bbox_by_frames(TorchStack[n], evTimes)[q]

====
